---- MODULE Spec2Model ----
(***************************************************************************)
(* qqr: an HTTP endpoint that turns a text payload into a QR-code image.   *)
(* Model of src/main.rs: the mounted routes, Server::handle, parse_post,   *)
(* get_format_from_accept, make_and_return_qrcode and make_qrcode.         *)
(*                                                                         *)
(* A Rust String is modelled as its UTF-8 byte sequence (a sequence of     *)
(* numbers 0..255).  A request body, which may be megabytes long, is the   *)
(* pair [text, fill]: the bytes `text` followed by `fill` bytes 'x'.       *)
(* The filler byte is neither '%', '&', '=' nor a hex digit, so splitting, *)
(* decoding and truncating a filled string are computed exactly.           *)
(***************************************************************************)
EXTENDS Integers, Sequences, FiniteSets, TLC

VARIABLES req, resp, encoder_call, stderr

vars == <<req, resp, encoder_call, stderr>>

(* Bounds of the model. *)
NumSlots == 2
MaxValueLen == 3

Slots == 1..NumSlots

(***************************************************************************)
(* Strings                                                                 *)
(***************************************************************************)
INPUT == <<105, 110, 112, 117, 116>>         \* "input"
REPLACEMENT == <<239, 191, 189>>             \* U+FFFD in UTF-8

Filled(text, fill) == [text |-> text, fill |-> fill]
EmptyStr == Filled(<<>>, 0)
StrLen(s) == Len(s.text) + s.fill

\* The first n bytes of a filled string.
Truncate(s, n) ==
    IF StrLen(s) <= n THEN s
    ELSE IF Len(s.text) >= n THEN Filled(SubSeq(s.text, 1, n), 0)
    ELSE Filled(s.text, n - Len(s.text))

\* Index of the first occurrence of byte b in t, 0 when there is none.
IndexOf(t, b) ==
    IF \E k \in 1..Len(t) : t[k] = b
    THEN CHOOSE k \in 1..Len(t) : t[k] = b /\ \A j \in 1..(k - 1) : t[j] # b
    ELSE 0

\* str::split(sep): the pieces of t between occurrences of sep.
RECURSIVE Split(_, _)
Split(t, sep) ==
    LET k == IndexOf(t, sep)
    IN  IF k = 0 THEN <<t>>
        ELSE <<SubSeq(t, 1, k - 1)>> \o Split(SubSeq(t, k + 1, Len(t)), sep)

(***************************************************************************)
(* UTF-8 (std::str::from_utf8, String::from_utf8_lossy)                    *)
(***************************************************************************)
Cont(b) == b \in 128..191

Width(b) ==
    IF b < 128 THEN 1
    ELSE IF b \in 194..223 THEN 2
    ELSE IF b \in 224..239 THEN 3
    ELSE IF b \in 240..244 THEN 4
    ELSE 0

SecondOk(b1, b2) ==
    IF b1 = 224 THEN b2 \in 160..191
    ELSE IF b1 = 237 THEN b2 \in 128..159
    ELSE IF b1 = 240 THEN b2 \in 144..191
    ELSE IF b1 = 244 THEN b2 \in 128..143
    ELSE Cont(b2)

\* How many bytes at the head of s are a prefix of one well-formed character.
GoodPrefix(s) ==
    LET w == Width(s[1])
    IN  IF w = 0 THEN 0
        ELSE IF ~(w >= 2 /\ Len(s) >= 2 /\ SecondOk(s[1], s[2])) THEN 1
        ELSE IF ~(w >= 3 /\ Len(s) >= 3 /\ Cont(s[3])) THEN 2
        ELSE IF ~(w >= 4 /\ Len(s) >= 4 /\ Cont(s[4])) THEN 3
        ELSE 4

\* Each maximal ill-formed subsequence becomes one U+FFFD.
RECURSIVE from_utf8_lossy(_)
from_utf8_lossy(s) ==
    IF s = <<>> THEN <<>>
    ELSE LET g == GoodPrefix(s)
             n == IF g = 0 THEN 1 ELSE g
         IN  IF g = Width(s[1]) /\ g > 0
             THEN SubSeq(s, 1, n) \o from_utf8_lossy(SubSeq(s, n + 1, Len(s)))
             ELSE REPLACEMENT \o from_utf8_lossy(SubSeq(s, n + 1, Len(s)))

ValidUtf8(s) == from_utf8_lossy(s) = s

(***************************************************************************)
(* Percent-decoding (RawStr::percent_decode_lossy)                         *)
(***************************************************************************)
IsHex(c) == c \in 48..57 \/ c \in 65..70 \/ c \in 97..102

HexVal(c) ==
    IF c \in 48..57 THEN c - 48
    ELSE IF c \in 65..70 THEN c - 55
    ELSE c - 87

\* '%' followed by two hex digits is one byte; every other byte is kept.
RECURSIVE PercentDecodeBytes(_)
PercentDecodeBytes(s) ==
    IF s = <<>> THEN <<>>
    ELSE IF s[1] = 37 /\ Len(s) >= 3 /\ IsHex(s[2]) /\ IsHex(s[3])
    THEN <<16 * HexVal(s[2]) + HexVal(s[3])>>
             \o PercentDecodeBytes(SubSeq(s, 4, Len(s)))
    ELSE <<s[1]>> \o PercentDecodeBytes(Tail(s))

percent_decode_lossy(s) ==
    Filled(from_utf8_lossy(PercentDecodeBytes(s.text)), s.fill)

(***************************************************************************)
(* Form parsing (rocket::form::Form::<Body>::parse, lenient)               *)
(***************************************************************************)
\* ValueField::parse: name and value are split at the first '='.
ValueFieldParse(seg) ==
    LET k == IndexOf(seg.text, 61)
    IN  IF k = 0 THEN [name |-> seg, value |-> EmptyStr]
        ELSE [name  |-> Filled(SubSeq(seg.text, 1, k - 1), 0),
              value |-> Filled(SubSeq(seg.text, k + 1, Len(seg.text)), seg.fill)]

\* Form::values: split at '&', drop the empty pieces, parse each one.
\* The filler of a filled string belongs to its last piece.
FormValues(s) ==
    LET pieces == Split(s.text, 38)
        seg(k) == Filled(pieces[k], IF k = Len(pieces) THEN s.fill ELSE 0)
        kept == SelectSeq([k \in 1..Len(pieces) |-> seg(k)],
                          LAMBDA x : StrLen(x) # 0)
    IN  [k \in 1..Len(kept) |-> ValueFieldParse(kept[k])]

\* #[derive(FromForm)] struct Body { input: String }: the first field named
\* `input` gives the value, other fields are ignored, a missing one is an
\* error.  (Field names of the modelled bodies hold no '.' and no '['.)
FormParse(s) ==
    LET fields == FormValues(s)
        hits == SelectSeq(fields, LAMBDA f : f.name = Filled(INPUT, 0))
    IN  IF hits = <<>> THEN [ok |-> FALSE, input |-> EmptyStr]
        ELSE [ok |-> TRUE, input |-> hits[1].value]

(***************************************************************************)
(* The encoder                                                             *)
(***************************************************************************)
\* QrCode::new uses error correction level M, whose largest symbol
\* (version 40) holds 2331 bytes in byte mode.
QrByteCapacity == 2331

NoBytes == [format |-> "", content |-> EmptyStr]

\* The image bytes are an injective function of (format, content): the
\* rendering of `content` in `format`.
make_qrcode(content, format) ==
    IF StrLen(content) > QrByteCapacity
    THEN [ok |-> FALSE, bytes |-> NoBytes, err |-> "data too long"]
    ELSE [ok |-> TRUE,
          bytes |-> [format |-> format, content |-> content],
          err |-> ""]

EncoderCall(content, format, code) ==
    [content |-> content, format |-> format, result |-> code]

\* Variant: an encoder failure reported as the client's fault.
make_and_return_qrcode_bad_request(content, format) ==
    LET code == make_qrcode(content, format)
    IN  IF ~code.ok
        THEN [success |-> FALSE, status |-> 400, content_type |-> "",
              body |-> [kind |-> "none", bytes |-> NoBytes],
              call |-> <<EncoderCall(content, format, code)>>,
              log  |-> <<[line |-> "Error", cause |-> code.err]>>]
        ELSE [success |-> TRUE, status |-> 200,
              content_type |-> IF format = "PNG" THEN "image/png"
                               ELSE "image/svg+xml",
              body |-> [kind |-> "image", bytes |-> code.bytes],
              call |-> <<EncoderCall(content, format, code)>>,
              log  |-> <<>>]

make_and_return_qrcode(content, format) ==
    LET code == make_qrcode(content, format)
    IN  IF ~code.ok
        THEN [success |-> FALSE, status |-> 500, content_type |-> "",
              body |-> [kind |-> "none", bytes |-> NoBytes],
              call |-> <<EncoderCall(content, format, code)>>,
              log  |-> <<[line |-> "Error", cause |-> code.err]>>]
        ELSE [success |-> TRUE, status |-> 200,
              content_type |-> IF format = "PNG" THEN "image/png"
                               ELSE "image/svg+xml",
              body |-> [kind |-> "image", bytes |-> code.bytes],
              call |-> <<EncoderCall(content, format, code)>>,
              log  |-> <<>>]

\* Variant: only the first Accept value is looked at.
get_format_from_accept_first(r) ==
    IF r.accept # <<>> /\ r.accept[1] = "image/svg+xml"
    THEN "SVG" ELSE "PNG"

get_format_from_accept(r) ==
    IF \E k \in 1..Len(r.accept) : r.accept[k] = "image/svg+xml"
    THEN "SVG" ELSE "PNG"

(***************************************************************************)
(* parse_post                                                              *)
(***************************************************************************)
\* 2.megabytes()
DataLimit == 2 * 1000 * 1000

is_form(ct) == ct.top = "application" /\ ct.sub = "x-www-form-urlencoded"
is_plain(ct) == ct.top = "text" /\ ct.sub = "plain"

ParseOk(content) == [ok |-> TRUE, content |-> content, status |-> 0]
ParseErr(status) == [ok |-> FALSE, content |-> EmptyStr, status |-> status]

\* body.open(limit).into_string() reads at most `limit` bytes and fails
\* only when what it read is not UTF-8; a longer body is cut, not refused.
parse_post(r) ==
    LET content == Truncate(r.body, DataLimit)
    IN  IF ~ValidUtf8(content.text) THEN ParseErr(413)
        ELSE IF r.content_type = <<>> THEN ParseErr(400)
        ELSE LET content_type == r.content_type[1]
             IN  IF is_form(content_type)
                 THEN LET form == FormParse(content)
                      IN  IF form.ok
                          THEN ParseOk(percent_decode_lossy(form.input))
                          ELSE ParseErr(400)
                 ELSE IF is_plain(content_type) THEN ParseOk(content)
                 ELSE ParseErr(415)

(***************************************************************************)
(* Server::handle and the mounted routes                                   *)
(***************************************************************************)
Outcome_Error(status) ==
    [success |-> FALSE, status |-> status, content_type |-> "",
     body |-> [kind |-> "none", bytes |-> NoBytes],
     call |-> <<>>, log |-> <<>>]

index ==
    [success |-> TRUE, status |-> 200,
     content_type |-> "text/html; charset=utf-8",
     body |-> [kind |-> "index", bytes |-> NoBytes],
     call |-> <<>>, log |-> <<>>]

\* Display of the request's Origin URI: the path as received, then '?'
\* and the query when there is one.
uri_to_string(uri) ==
    IF uri.query = <<>> THEN uri.path ELSE uri.path \o <<63>> \o uri.query[1]

strip_prefix(s) == IF s # <<>> /\ s[1] = 47 THEN Tail(s) ELSE s

handle(r) ==
    IF r.uri.path = <<47>>
    THEN IF r.method = "GET" THEN index
         ELSE IF r.method = "POST"
         THEN LET parsed == parse_post(r)
              IN  IF parsed.ok
                  THEN make_and_return_qrcode(parsed.content,
                                              get_format_from_accept(r))
                  ELSE Outcome_Error(413)
         ELSE Outcome_Error(405)
    ELSE IF r.method = "GET"
         THEN make_and_return_qrcode(
                  Filled(strip_prefix(uri_to_string(r.uri)), 0),
                  get_format_from_accept(r))
         ELSE Outcome_Error(405)

Routes ==
    <<[method |-> "GET", path |-> "/<path..>"],
      [method |-> "POST", path |-> "/"]>>

RouteMatches(route, r) ==
    /\ route.method = r.method
    /\ \/ route.path = "/<path..>"
       \/ route.path = "/" /\ r.uri.path = <<47>>

\* A status without a response goes to the framework's default catcher,
\* which answers with that status and its own page for it.
Catcher(status) ==
    [status |-> status, content_type |-> "text/html; charset=utf-8",
     body |-> [kind |-> "catcher", bytes |-> NoBytes]]

\* The server as mounted: a request no route matches is a 404; otherwise
\* the handler's outcome is the response, or the catcher's for its status.
Dispatch(r) ==
    IF ~\E k \in 1..Len(Routes) : RouteMatches(Routes[k], r)
    THEN [response |-> Catcher(404), call |-> <<>>, log |-> <<>>]
    ELSE LET o == handle(r)
         IN  [response |-> IF o.success
                           THEN [status |-> o.status,
                                 content_type |-> o.content_type,
                                 body |-> o.body]
                           ELSE Catcher(o.status),
              call |-> o.call, log |-> o.log]

(***************************************************************************)
(* Requests                                                                *)
(***************************************************************************)
BoundedSeq(S, n) == UNION {[1..k -> S] : k \in 0..n}

Methods == {"GET", "POST", "PUT", "DELETE", "PATCH"}

Uri(path, query) == [path |-> path, query |-> query]

Uris ==
    {Uri(<<47>>, <<>>),                                \* /
     Uri(<<47>>, <<<<120>>>>),                         \* /?x
     Uri(<<47, 104>>, <<>>),                           \* /h
     Uri(<<47, 104, 37, 50, 48, 119>>, <<>>),          \* /h%20w
     Uri(<<47, 104>>, <<<<120>>>>)}                    \* /h?x

PostUris == {Uri(<<47>>, <<>>), Uri(<<47, 104>>, <<<<120>>>>)}

\* The values of the request's Accept headers, one per header line.
Accepts ==
    {<<>>,
     <<"image/svg+xml">>,
     <<"image/png", "image/svg+xml">>,
     <<"image/svg+xml, image/png">>}

MediaType(top, sub) == [top |-> top, sub |-> sub]

ContentTypes ==
    {<<>>,
     <<MediaType("application", "x-www-form-urlencoded")>>,
     <<MediaType("text", "plain")>>,
     <<MediaType("application", "json")>>}

\* Raw field values: every string over '%', '2', '5' up to the bound, and
\* a few longer ones.
ValueAlphabet == {37, 50, 53}

SampleValues ==
    {<<104, 37, 50, 48, 119>>,                         \* h%20w
     <<37, 50, 53, 50, 48>>,                           \* %2520
     <<37, 99, 51, 37, 97, 57>>,                       \* %c3%a9
     <<37, 102, 102>>}                                 \* %ff

Values == BoundedSeq(ValueAlphabet, MaxValueLen) \cup SampleValues

Prefixes ==
    {INPUT \o <<61>>,                                  \* input=
     <<105, 110, 61>>,                                 \* in=
     <<>>}

Suffixes ==
    {<<>>,
     <<38, 112, 61>>}                                  \* &p=

BodyTexts ==
    {p \o v \o s : p \in Prefixes, v \in Values, s \in Suffixes}
        \cup {<<255>>,                                 \* not UTF-8
              INPUT \o <<61, 50, 38>> \o INPUT \o <<61, 53>>}  \* input=2&input=5

\* Filler lengths: none, one byte more than a symbol holds, one byte more
\* than 2 MiB.
Fills == {0, QrByteCapacity + 1, 2 * 1024 * 1024 + 1}

Bodies == {Filled(t, f) : t \in BodyTexts, f \in Fills}

Request(method, uri, accept, content_type, body) ==
    [method |-> method, uri |-> uri, accept |-> accept,
     content_type |-> content_type, body |-> body]

\* Only POST requests carry a body here: the other methods never read it.
Requests ==
    {Request("POST", u, a, c, b) :
         u \in PostUris, a \in Accepts, c \in ContentTypes, b \in Bodies}
    \cup {Request(m, u, a, <<>>, EmptyStr) :
         m \in Methods \ {"POST"}, u \in Uris, a \in Accepts}

Plain == <<MediaType("text", "plain")>>
Root == Uri(<<47>>, <<>>)

\* The requests of the concurrent specification.
ConcRequests ==
    {Request("GET", Uri(<<47, 104>>, <<>>), <<"image/svg+xml">>, <<>>, EmptyStr),
     Request("PUT", Root, <<>>, <<>>, EmptyStr),
     Request("POST", Root, <<>>, Plain, Filled(<<104>>, 0)),
     Request("POST", Root, <<>>, Plain, Filled(<<104>>, QrByteCapacity + 1)),
     Request("POST", Root, <<>>, Plain, Filled(<<104>>, 2 * 1024 * 1024 + 1))}

(***************************************************************************)
(* The server: requests in flight and their responses                      *)
(***************************************************************************)
Init ==
    /\ req = [i \in Slots |-> <<>>]
    /\ resp = [i \in Slots |-> <<>>]
    /\ encoder_call = [i \in Slots |-> <<>>]
    /\ stderr = <<>>

\* A request, one of the set R, arrives on connection i.
Receive(i, R) ==
    /\ req[i] = <<>>
    /\ \E r \in R : req' = [req EXCEPT ![i] = <<r>>]
    /\ UNCHANGED <<resp, encoder_call, stderr>>

\* Variant: a handler that refuses to work while another request is in
\* flight, as one holding a shared encoder would.
Handle_busy(i) ==
    /\ req[i] # <<>>
    /\ resp[i] = <<>>
    /\ LET o == Dispatch(req[i][1])
           busy == \E j \in Slots \ {i} : req[j] # <<>> /\ resp[j] = <<>>
       IN  /\ resp' = [resp EXCEPT ![i] =
                          IF busy THEN <<Catcher(503)>> ELSE <<o.response>>]
           /\ encoder_call' = [encoder_call EXCEPT ![i] = o.call]
           /\ stderr' = stderr \o o.log
    /\ UNCHANGED req

\* The server routes request i, runs the handler and writes the response.
Handle(i) ==
    /\ req[i] # <<>>
    /\ resp[i] = <<>>
    /\ LET o == Dispatch(req[i][1])
       IN  /\ resp' = [resp EXCEPT ![i] = <<o.response>>]
           /\ encoder_call' = [encoder_call EXCEPT ![i] = o.call]
           /\ stderr' = stderr \o o.log
    /\ UNCHANGED req

\* One connection, every request of the model.
Next ==
    \/ Receive(1, Requests)
    \/ Handle(1)

Spec == Init /\ [][Next]_vars

\* Several connections served in any order.
NextConc ==
    \/ \E i \in Slots : Receive(i, ConcRequests)
    \/ \E i \in Slots : Handle(i)

SpecConc == Init /\ [][NextConc]_vars

\* The handler of a received request runs to its end: it waits for nothing.
SpecConcFair == SpecConc /\ \A i \in Slots : WF_vars(Handle(i))

(***************************************************************************)
(* Properties                                                              *)
(***************************************************************************)
Responded(i) == resp[i] # <<>>
TheReq(i) == req[i][1]
TheResp(i) == resp[i][1]
TheCall(i) == encoder_call[i][1]

IsRoot(r) == r.uri.path = <<47>>
IsPostRoot(r) == r.method = "POST" /\ IsRoot(r)
TwoMiB == 2 * 1024 * 1024
WithinLimit(r) == StrLen(r.body) <= TwoMiB
IsPrefix(p, t) == Len(p) <= Len(t) /\ SubSeq(t, 1, Len(p)) = p

\* The body is a form that has a field `input`.
HasInputField(b) ==
    LET pieces == Split(b.text, 38)
    IN  \E k \in 1..Len(pieces) :
            \/ IsPrefix(INPUT \o <<61>>, pieces[k])
            \/ pieces[k] = INPUT /\ (k < Len(pieces) \/ b.fill = 0)

\* C1: a POST to / whose body is read and whose content type is neither
\* form nor plain text is answered with status 415.
C1_OtherContentTypeIs415 ==
    \A i \in Slots :
        (/\ Responded(i)
         /\ IsPostRoot(TheReq(i))
         /\ WithinLimit(TheReq(i))
         /\ ValidUtf8(TheReq(i).body.text)
         /\ TheReq(i).content_type # <<>>
         /\ ~is_form(TheReq(i).content_type[1])
         /\ ~is_plain(TheReq(i).content_type[1]))
        => TheResp(i).status = 415

\* C2: a POST to / with a body larger than 2 MiB is answered with status
\* 413 whatever its content type, and the encoder is not called for it.
C2_OversizedBodyIs413 ==
    \A i \in Slots :
        (Responded(i) /\ IsPostRoot(TheReq(i)) /\ ~WithinLimit(TheReq(i)))
        => TheResp(i).status = 413 /\ encoder_call[i] = <<>>

\* C3: a POST to / without a content type, its body within the limit, is
\* answered with status 400.
C3_MissingContentTypeIs400 ==
    \A i \in Slots :
        (/\ Responded(i)
         /\ IsPostRoot(TheReq(i))
         /\ WithinLimit(TheReq(i))
         /\ TheReq(i).content_type = <<>>)
        => TheResp(i).status = 400

\* C4: a form POST to / whose body, within the limit, is not a form with
\* the field `input` is answered with status 400.
C4_MalformedFormIs400 ==
    \A i \in Slots :
        (/\ Responded(i)
         /\ IsPostRoot(TheReq(i))
         /\ WithinLimit(TheReq(i))
         /\ TheReq(i).content_type # <<>>
         /\ is_form(TheReq(i).content_type[1])
         /\ ~HasInputField(TheReq(i).body))
        => TheResp(i).status = 400

\* C5: the mounted server answers every request whose method and path
\* have no handler with status 405: a method other than GET and POST on /,
\* a method other than GET elsewhere.
C5_NoHandlerIs405 ==
    \A i \in Slots :
        (/\ Responded(i)
         /\ \/ IsRoot(TheReq(i)) /\ TheReq(i).method \notin {"GET", "POST"}
            \/ ~IsRoot(TheReq(i)) /\ TheReq(i).method # "GET")
        => TheResp(i).status = 405

AcceptsSvg(r) == \E k \in 1..Len(r.accept) : r.accept[k] = "image/svg+xml"

IsInputEqualsValue(b) ==
    /\ IsPrefix(INPUT \o <<61>>, b.text)
    /\ \A k \in 1..Len(b.text) : b.text[k] # 38

RawValue(b) == Filled(SubSeq(b.text, Len(INPUT) + 2, Len(b.text)), b.fill)

\* C7: for a form POST to / with body input=<v>, the payload given to the
\* encoder is <v> percent-decoded once.
C7_FormPayloadDecodedOnce ==
    \A i \in Slots :
        (/\ Responded(i)
         /\ IsPostRoot(TheReq(i))
         /\ TheReq(i).content_type # <<>>
         /\ is_form(TheReq(i).content_type[1])
         /\ IsInputEqualsValue(TheReq(i).body))
        => /\ encoder_call[i] # <<>>
           /\ TheCall(i).content = percent_decode_lossy(RawValue(TheReq(i).body))

\* C8: for a GET of a path other than /, the payload given to the encoder
\* is the path without its leading '/', percent-decoded, without the query.
C8_GetPayloadIsDecodedPath ==
    \A i \in Slots :
        (Responded(i) /\ TheReq(i).method = "GET" /\ ~IsRoot(TheReq(i)))
        => /\ encoder_call[i] # <<>>
           /\ TheCall(i).content =
                  percent_decode_lossy(Filled(Tail(TheReq(i).uri.path), 0))

\* C9: when the encoder fails the response is the bare status 500, with
\* no image bytes and nothing of the cause; when it succeeds the response
\* is a 200 whose body is the bytes the encoder returned.
C9_EncoderResultBecomesResponse ==
    \A i \in Slots :
        (Responded(i) /\ encoder_call[i] # <<>>)
        => IF TheCall(i).result.ok
           THEN /\ TheResp(i).status = 200
                /\ TheResp(i).body.kind = "image"
                /\ TheResp(i).body.bytes = TheCall(i).result.bytes
           ELSE /\ TheResp(i).status = 500
                /\ TheResp(i).body.kind # "image"
                /\ TheResp(i).body.bytes = NoBytes
                /\ TheResp(i) = Catcher(500)

\* A plain-text POST too long for a symbol was answered 500.
C9_Witness ==
    /\ Responded(1)
    /\ IsPostRoot(TheReq(1))
    /\ encoder_call[1] # <<>>
    /\ ~TheCall(1).result.ok
    /\ TheResp(1).status = 500
    /\ stderr # <<>>

SameRequestSameResponse ==
    \A i, j \in Slots :
        (Responded(i) /\ Responded(j) /\ req[i] = req[j]) => resp[i] = resp[j]

ResponseWrittenOnce ==
    \A i \in Slots :
        /\ req[i] # <<>> => req'[i] = req[i]
        /\ Responded(i) => resp'[i] = resp[i]

====
